---- MODULE Spec2Model ----
(***************************************************************************)
(* State-machine model of the todo application of src/src/App.tsx: the App *)
(* component (collection state, transient flags, the six reconciliation    *)
(* operations) and the TodoItem component (per-item loading/editing state).*)
(* Every await of a remote call is a suspension point: the part of a       *)
(* handler before the await is one action, each settlement of a remote     *)
(* call (success or failure) another.  Closures keep what they captured at *)
(* the render they were created in (snap, all, completed).                 *)
(***************************************************************************)
EXTENDS Integers, Sequences, FiniteSets, TLC

\* ------------------------------------------------------------------ bounds
MaxId == 3        \* ids the remote store hands out: 1..MaxId
MaxEffort == 5    \* what the user may do after startup: a gesture that starts remote calls
                  \* counts two, one that does not (typing, edit mode, filter) counts one

Ids == 1..MaxId

\* Texts the user types; a text is a sequence of characters so that trim is computed.
Texts == { <<>>, <<" ">>, <<"b", " ">> }

\* ------------------------------------------------------------ pure helpers
RECURSIVE TrimStart(_)
TrimStart(s) == IF s # <<>> /\ Head(s) = " " THEN TrimStart(Tail(s)) ELSE s

RECURSIVE TrimEnd(_)
TrimEnd(s) == IF s # <<>> /\ s[Len(s)] = " " THEN TrimEnd(SubSeq(s, 1, Len(s) - 1)) ELSE s

\* Trim that takes the text as typed: a faulty variant.
TrimNothing(s) == s

\* String.prototype.trim, for texts whose only white space is the space character.
Trim(s) == TrimEnd(TrimStart(s))

Todo(i, t, c) == [id |-> i, title |-> t, completed |-> c]

IdsOf(ts) == { ts[k].id : k \in 1..Len(ts) }

IsCompleted(t) == t.completed

IsActive(t) == ~t.completed

\* WithoutId with the filter's test inverted (item.id === id): a faulty variant.
WithoutIdInverted(ts, i) == LET keep(t) == t.id = i IN SelectSeq(ts, keep)

\* ts.filter(item => item.id !== i)
WithoutId(ts, i) == LET keep(t) == t.id # i IN SelectSeq(ts, keep)

\* The error messages, and null.
NoError == "null"
MsgLoad == "Unable to load todos"
MsgDelete == "Unable to delete a todo"
MsgTitle == "Title should not be empty"
MsgAdd == "Unable to add a todo"
MsgUpdate == "Unable to update a todo"

\* ------------------------------------------------------------ derived views
completedTodos(ts) == SelectSeq(ts, IsCompleted)

allCompleted(ts) == Len(completedTodos(ts)) = Len(ts)

activeTodos(ts) == SelectSeq(ts, IsActive)

\* preparedTodos with the tests of the two filters exchanged: a faulty variant.
preparedTodosSwapped(ts, f) ==
  CASE f = "Active" -> SelectSeq(ts, IsCompleted)
    [] f = "Completed" -> SelectSeq(ts, IsActive)
    [] OTHER -> LET keep(t) == TRUE IN SelectSeq(ts, keep)

preparedTodos(ts, f) ==
  CASE f = "Active" -> SelectSeq(ts, IsActive)
    [] f = "Completed" -> SelectSeq(ts, IsCompleted)
    [] OTHER -> LET keep(t) == TRUE IN SelectSeq(ts, keep)

\* The ids that have a mounted TodoItem.
Mounted(ts, f) == IdsOf(preparedTodos(ts, f))

\* The todo a mounted TodoItem with key i is rendered from.
ItemTodo(ts, i) == ts[CHOOSE k \in 1..Len(ts) : ts[k].id = i /\ \A j \in 1..(k - 1) : ts[j].id # i]

\* ------------------------------------------------------------------- state
VARIABLES
  todosFromServer,  \* App: the collection state
  filterStatus,     \* App: "All" | "Active" | "Completed"
  inputValue,       \* App: text of the new-todo field
  tempTodo,         \* App: <<>> for null, <<title>> for the pending creation placeholder
  lockInput,        \* App
  deleteAll,        \* App: bulk-delete marker
  changeAll,        \* App: "null" | "completed" | "active"
  errorMessage,     \* App: the Error Slot
  isLoading,        \* TodoItem, by id
  isEditing,        \* TodoItem, by id
  itemValue,        \* TodoItem inputValue, by id
  ops,              \* the handler invocations suspended at an await
  store,            \* the remote store's collection
  nextId,           \* the id the remote store assigns next
  nextOp,           \* the number the next suspended invocation gets
  spent,            \* how much of MaxEffort the gestures of the user have used
  errWriter,        \* history: number of the invocation that last wrote the Error Slot (0: none)
  last,             \* history: the step just taken
  loaded            \* history: the startup load: "pending" | "ok" | "failed"

vars == << todosFromServer, filterStatus, inputValue, tempTodo, lockInput, deleteAll,
           changeAll, errorMessage, isLoading, isEditing, itemValue, ops, store, nextId,
           nextOp, spent, errWriter, last, loaded >>

\* A handler invocation suspended at an await, with what its closure captured.
\*   kind: "load" | "post" | "del" | "patch" | "delAll" | "togAll"
\*   id, field, title, completed: the call's arguments (del, patch, post)
\*   snap: todosFromServer as captured; work: updatedTodos (or the reply of a served call)
\*   all: allCompleted as captured; pending/okd/failed: positions of snap whose call is
\*   in flight / succeeded / failed; served: the store has answered, the reply is under way
\*   live: the TodoItem that started it is still mounted
\*   prev (history): for a bulk toggle invoked at the step right after a bulk toggle
\*   ended with every call resolved, the list that earlier one was invoked on
Op(n, kind) ==
  [n |-> n, kind |-> kind, id |-> 0, field |-> "none", title |-> <<>>, completed |-> FALSE,
   snap |-> <<>>, work |-> <<>>, all |-> FALSE, pending |-> {}, okd |-> {}, failed |-> {},
   served |-> FALSE, live |-> TRUE, prev |-> <<>>]

\* The step just taken: its name, the invocation it belongs to, the item it is about,
\* for an update the field sent, for the end of a bulk operation the positions of its
\* snapshot whose calls succeeded and failed, for the end of a bulk toggle the list it
\* was invoked on and its invocation's prev.
Event(ev, n, i) ==
  [ev |-> ev, n |-> n, id |-> i, field |-> "none", okd |-> {}, failed |-> {}, snap |-> <<>>,
   prev |-> <<>>]

\* What the remote store holds at startup: up to two todos, any completed flags.
InitStores ==
  UNION { { [k \in 1..len |-> Todo(k, <<"a">>, c[k])] : c \in [1..len -> BOOLEAN] }
          : len \in 0..2 }

Init ==
  /\ todosFromServer = <<>>
  /\ filterStatus = "All"
  /\ inputValue = <<>>
  /\ tempTodo = <<>>
  /\ lockInput = FALSE
  /\ deleteAll = FALSE
  /\ changeAll = "null"
  /\ errorMessage = NoError
  /\ isLoading = [i \in Ids |-> FALSE]
  /\ isEditing = [i \in Ids |-> FALSE]
  /\ itemValue = [i \in Ids |-> <<>>]
  /\ ops = { Op(1, "load") }
  /\ store \in InitStores
  /\ nextId = Len(store) + 1
  /\ nextOp = 2
  /\ spent = 0
  /\ errWriter = 0
  /\ last = Event("init", 0, 0)
  /\ loaded = "pending"

\* --------------------------------------------------------- mounting of items
\* Rendering todos ts under filter f after a step whose handlers left the item state
\* (L, E, V) and the suspended invocations O: an item no longer rendered loses its
\* state and its invocations' later setState calls have no effect; an item rendered
\* anew starts from useState's initial values.
Render(ts, f, L, E, V, O) ==
  LET old == Mounted(todosFromServer, filterStatus)
      new == Mounted(ts, f)
  IN /\ isLoading' = [i \in Ids |-> IF i \in new /\ i \in old THEN L[i] ELSE FALSE]
     /\ isEditing' = [i \in Ids |-> IF i \in new /\ i \in old THEN E[i] ELSE FALSE]
     /\ itemValue' = [i \in Ids |-> IF i \in new
                                     THEN (IF i \in old THEN V[i] ELSE ItemTodo(ts, i).title)
                                     ELSE <<>>]
     /\ ops' = { IF o.kind \in {"del", "patch"} /\ o.id \in old \ new
                 THEN [o EXCEPT !.live = FALSE] ELSE o : o \in O }

\* A step that changes neither the list nor the filter.
Keep(L, E, V, O) == Render(todosFromServer, filterStatus, L, E, V, O)

\* ------------------------------------------------------------- remote store
\* The remote CRUD service behind api/todos (getTodos, postTodo, deleteTodo, patchTodo).
\* A call that succeeds takes effect in the store; a call that fails leaves it alone;
\* a call for an id the store does not hold cannot succeed.
StoreHas(i) == i \in IdsOf(store)

StoreCreate(t) == Append(store, Todo(nextId, t, FALSE))

StoreRemove(i) == WithoutId(store, i)

StorePatch(i, field, t, c) ==
  [k \in 1..Len(store) |->
     IF store[k].id = i
     THEN (IF field = "title" THEN [store[k] EXCEPT !.title = t]
                              ELSE [store[k] EXCEPT !.completed = c])
     ELSE store[k]]

\* The bound on the user's gestures: one that starts remote calls, and one that does not.
Budget == spent + 2 <= MaxEffort /\ spent' = spent + 2

Gesture == spent + 1 <= MaxEffort /\ spent' = spent + 1

\* ----------------------------------------------------------------- loadTodos
\* The store answers getTodos with its current collection.
LoadServe(o) ==
  /\ o.kind = "load" /\ ~o.served
  /\ Keep(isLoading, isEditing, itemValue,
          (ops \ {o}) \cup { [o EXCEPT !.served = TRUE, !.work = store] })
  /\ last' = Event("LoadServe", o.n, 0)
  /\ UNCHANGED << loaded, todosFromServer, filterStatus, inputValue, tempTodo, lockInput, deleteAll,
                  changeAll, errorMessage, store, nextId, nextOp, spent, errWriter >>

\* loadTodos appending the reply to the list instead of replacing it: a faulty variant.
LoadDoneAppend(o) ==
  /\ o.kind = "load" /\ o.served
  /\ todosFromServer' = todosFromServer \o o.work
  /\ Render(todosFromServer \o o.work, filterStatus, isLoading, isEditing, itemValue,
            ops \ {o})
  /\ last' = Event("LoadDone", o.n, 0)
  /\ loaded' = "ok"
  /\ UNCHANGED << filterStatus, inputValue, tempTodo, lockInput, deleteAll, changeAll,
                  errorMessage, store, nextId, nextOp, spent, errWriter >>

\* The reply of getTodos is delivered: setTodosFromServer(todos).

LoadDone(o) ==
  /\ o.kind = "load" /\ o.served
  /\ todosFromServer' = o.work
  /\ Render(o.work, filterStatus, isLoading, isEditing, itemValue, ops \ {o})
  /\ last' = Event("LoadDone", o.n, 0)
  /\ loaded' = "ok"
  /\ UNCHANGED << filterStatus, inputValue, tempTodo, lockInput, deleteAll, changeAll,
                  errorMessage, store, nextId, nextOp, spent, errWriter >>

LoadFail(o) ==
  /\ o.kind = "load" /\ ~o.served
  /\ errorMessage' = MsgLoad
  /\ errWriter' = o.n
  /\ Keep(isLoading, isEditing, itemValue, ops \ {o})
  /\ last' = Event("LoadFail", o.n, 0)
  /\ loaded' = "failed"
  /\ UNCHANGED << todosFromServer, filterStatus, inputValue, tempTodo, lockInput, deleteAll,
                  changeAll, store, nextId, nextOp, spent >>

\* ------------------------------------------------------------ new-todo field
\* handleInputChange of the new-todo field; the field is disabled while lockInput.
TypeNew(v) ==
  /\ ~lockInput
  /\ Gesture
  /\ v # inputValue
  /\ inputValue' = v
  /\ Keep(isLoading, isEditing, itemValue, ops)
  /\ last' = Event("TypeNew", 0, 0)
  /\ UNCHANGED << loaded, todosFromServer, filterStatus, tempTodo, lockInput, deleteAll, changeAll,
                  errorMessage, store, nextId, nextOp, errWriter >>

\* handlePostTodo, the title empty after trimming: the early return.
PostEmpty ==
  /\ ~lockInput
  /\ Trim(inputValue) = <<>>
  /\ errorMessage' = MsgTitle
  /\ errWriter' = 0
  /\ Keep(isLoading, isEditing, itemValue, ops)
  /\ last' = Event("PostEmpty", 0, 0)
  /\ UNCHANGED << loaded, todosFromServer, filterStatus, inputValue, tempTodo, lockInput, deleteAll,
                  changeAll, store, nextId, nextOp, spent >>

\* handlePostTodo up to its await of postTodo.
PostTodo ==
  /\ ~lockInput
  /\ Trim(inputValue) # <<>>
  /\ Budget
  /\ errorMessage' = NoError
  /\ errWriter' = nextOp
  /\ lockInput' = TRUE
  /\ tempTodo' = << Trim(inputValue) >>
  /\ Keep(isLoading, isEditing, itemValue,
          ops \cup { [Op(nextOp, "post") EXCEPT !.title = Trim(inputValue)] })
  /\ nextOp' = nextOp + 1
  /\ last' = Event("PostTodo", nextOp, 0)
  /\ UNCHANGED << loaded, todosFromServer, filterStatus, inputValue, deleteAll, changeAll, store,
                  nextId >>

\* The store creates the todo and assigns its id; the reply is under way.
PostServe(o) ==
  /\ o.kind = "post" /\ ~o.served
  /\ nextId <= MaxId
  /\ store' = StoreCreate(o.title)
  /\ nextId' = nextId + 1
  /\ Keep(isLoading, isEditing, itemValue,
          (ops \ {o}) \cup { [o EXCEPT !.served = TRUE,
                                       !.work = << Todo(nextId, o.title, FALSE) >>] })
  /\ last' = Event("PostServe", o.n, nextId)
  /\ UNCHANGED << loaded, todosFromServer, filterStatus, inputValue, tempTodo, lockInput, deleteAll,
                  changeAll, errorMessage, nextOp, spent, errWriter >>

\* AddTodo with the new todo put first: a faulty variant.
AddTodoFirst(ts, t) == <<t>> \o ts

\* currentTodos => [...currentTodos, newPost]
AddTodo(ts, t) == Append(ts, t)

\* handlePostTodo after postTodo resolved: append, clear the text, finally.
PostDone(o) ==
  /\ o.kind = "post" /\ o.served
  /\ todosFromServer' = AddTodo(todosFromServer, o.work[1])
  /\ inputValue' = <<>>
  /\ lockInput' = FALSE
  /\ tempTodo' = <<>>
  /\ Render(AddTodo(todosFromServer, o.work[1]), filterStatus, isLoading, isEditing,
            itemValue, ops \ {o})
  /\ last' = Event("PostDone", o.n, o.work[1].id)
  /\ UNCHANGED << loaded, filterStatus, deleteAll, changeAll, errorMessage, store, nextId, nextOp,
                  spent, errWriter >>

\* handlePostTodo after postTodo rejected: catch, finally.
\* handlePostTodo leaving the field locked after a rejected postTodo: a faulty variant.
PostFailLocked(o) ==
  /\ o.kind = "post" /\ ~o.served
  /\ errorMessage' = MsgAdd
  /\ errWriter' = o.n
  /\ tempTodo' = <<>>
  /\ Keep(isLoading, isEditing, itemValue, ops \ {o})
  /\ last' = Event("PostFail", o.n, 0)
  /\ UNCHANGED << loaded, todosFromServer, filterStatus, inputValue, lockInput, deleteAll,
                  changeAll, store, nextId, nextOp, spent >>

PostFail(o) ==
  /\ o.kind = "post" /\ ~o.served
  /\ errorMessage' = MsgAdd
  /\ errWriter' = o.n
  /\ lockInput' = FALSE
  /\ tempTodo' = <<>>
  /\ Keep(isLoading, isEditing, itemValue, ops \ {o})
  /\ last' = Event("PostFail", o.n, 0)
  /\ UNCHANGED << loaded, todosFromServer, filterStatus, inputValue, deleteAll, changeAll, store,
                  nextId, nextOp, spent >>

\* setFilterStatus, from TodoFilter (rendered in the footer, when the list is not empty).
SetFilter(f) ==
  /\ Len(todosFromServer) > 0
  /\ Gesture
  /\ f # filterStatus
  /\ filterStatus' = f
  /\ Render(todosFromServer, f, isLoading, isEditing, itemValue, ops)
  /\ last' = Event("SetFilter", 0, 0)
  /\ UNCHANGED << loaded, todosFromServer, inputValue, tempTodo, lockInput, deleteAll, changeAll,
                  errorMessage, store, nextId, nextOp, errWriter >>

\* ------------------------------------------------------- TodoItem's own state
\* onDoubleClick of the title: setIsEditing(true).
StartEdit(i) ==
  /\ i \in Mounted(todosFromServer, filterStatus)
  /\ ~isEditing[i]
  /\ Gesture
  /\ Keep(isLoading, [isEditing EXCEPT ![i] = TRUE], itemValue, ops)
  /\ last' = Event("StartEdit", 0, i)
  /\ UNCHANGED << loaded, todosFromServer, filterStatus, inputValue, tempTodo, lockInput, deleteAll,
                  changeAll, errorMessage, store, nextId, nextOp, errWriter >>

\* TodoItem.handleInputChange: the edit field exists while isEditing.
TypeItem(i, v) ==
  /\ i \in Mounted(todosFromServer, filterStatus)
  /\ Gesture
  /\ isEditing[i]
  /\ v # itemValue[i]
  /\ Keep(isLoading, isEditing, [itemValue EXCEPT ![i] = v], ops)
  /\ last' = Event("TypeItem", 0, i)
  /\ UNCHANGED << loaded, todosFromServer, filterStatus, inputValue, tempTodo, lockInput, deleteAll,
                  changeAll, errorMessage, store, nextId, nextOp, errWriter >>

\* TodoItem.handleKeyDown with Escape.
Escape(i) ==
  /\ i \in Mounted(todosFromServer, filterStatus)
  /\ Gesture
  /\ isEditing[i]
  /\ Keep(isLoading, [isEditing EXCEPT ![i] = FALSE], itemValue, ops)
  /\ last' = Event("Escape", 0, i)
  /\ UNCHANGED << loaded, todosFromServer, filterStatus, inputValue, tempTodo, lockInput, deleteAll,
                  changeAll, errorMessage, store, nextId, nextOp, errWriter >>

\* ------------------------------------------------------------------ delete one
\* TodoItem.deleteItem and handleDeleteTodo up to the await of deleteTodo.
StartDelete(i) ==
  /\ Budget
  /\ errorMessage' = NoError
  /\ errWriter' = nextOp
  /\ lockInput' = TRUE
  /\ Keep([isLoading EXCEPT ![i] = TRUE], isEditing, itemValue,
          ops \cup { [Op(nextOp, "del") EXCEPT !.id = i, !.snap = todosFromServer] })
  /\ nextOp' = nextOp + 1
  /\ UNCHANGED << loaded, todosFromServer, filterStatus, inputValue, tempTodo, deleteAll, changeAll,
                  store, nextId >>

\* onClick of the remove button, rendered while the item is not being edited.
DeleteItem(i) ==
  /\ i \in Mounted(todosFromServer, filterStatus)
  /\ ~isEditing[i]
  /\ StartDelete(i)
  /\ last' = Event("DeleteItem", nextOp, i)

\* handleDeleteTodo after deleteTodo resolved, then deleteItem's finally.
DeleteOk(o) ==
  /\ o.kind = "del"
  /\ StoreHas(o.id)
  /\ store' = StoreRemove(o.id)
  /\ todosFromServer' = WithoutId(o.snap, o.id)
  /\ lockInput' = FALSE
  /\ Render(WithoutId(o.snap, o.id), filterStatus,
            IF o.live THEN [isLoading EXCEPT ![o.id] = FALSE] ELSE isLoading,
            isEditing, itemValue, ops \ {o})
  /\ last' = Event("DeleteOk", o.n, o.id)
  /\ UNCHANGED << loaded, filterStatus, inputValue, tempTodo, deleteAll, changeAll, errorMessage,
                  nextId, nextOp, spent, errWriter >>

\* handleDeleteTodo after deleteTodo rejected, then deleteItem's finally.
DeleteFail(o) ==
  /\ o.kind = "del"
  /\ errorMessage' = MsgDelete
  /\ errWriter' = o.n
  /\ lockInput' = FALSE
  /\ Keep(IF o.live THEN [isLoading EXCEPT ![o.id] = FALSE] ELSE isLoading,
          isEditing, itemValue, ops \ {o})
  /\ last' = Event("DeleteFail", o.n, o.id)
  /\ UNCHANGED << loaded, todosFromServer, filterStatus, inputValue, tempTodo, deleteAll, changeAll,
                  store, nextId, nextOp, spent >>

\* ------------------------------------------------------------------ update one
\* handleChangeTodo up to the await of patchTodo; data is a boolean (field "completed")
\* or a string (field "title", trimmed).
StartChange(i, field, t, c, L) ==
  /\ Budget
  /\ Keep(L, isEditing, itemValue,
          ops \cup { [Op(nextOp, "patch") EXCEPT !.id = i, !.field = field,
                                                 !.title = t, !.completed = c] })
  /\ nextOp' = nextOp + 1
  /\ UNCHANGED << loaded, todosFromServer, filterStatus, inputValue, tempTodo, lockInput, deleteAll,
                  changeAll, errorMessage, store, nextId, errWriter >>

\* TodoItem.handleCompletedStatus: changeTodo(id, !completed).
ToggleItem(i) ==
  /\ i \in Mounted(todosFromServer, filterStatus)
  /\ StartChange(i, "completed", <<>>, ~ItemTodo(todosFromServer, i).completed,
                 [isLoading EXCEPT ![i] = TRUE])
  /\ last' = Event("ToggleItem", nextOp, i)

\* TodoItem.handleTitleChange (submit or blur of the edit field), the text empty.
TitleChangeDelete(i) ==
  /\ i \in Mounted(todosFromServer, filterStatus)
  /\ isEditing[i]
  /\ itemValue[i] = <<>>
  /\ StartDelete(i)
  /\ last' = Event("TitleChangeDelete", nextOp, i)

\* TodoItem.handleTitleChange, the text equal to the title.
TitleChangeSame(i) ==
  /\ i \in Mounted(todosFromServer, filterStatus)
  /\ isEditing[i]
  /\ itemValue[i] # <<>>
  /\ itemValue[i] = ItemTodo(todosFromServer, i).title
  /\ Keep(isLoading, [isEditing EXCEPT ![i] = FALSE], itemValue, ops)
  /\ last' = Event("TitleChangeSame", 0, i)
  /\ UNCHANGED << loaded, todosFromServer, filterStatus, inputValue, tempTodo, lockInput, deleteAll,
                  changeAll, errorMessage, store, nextId, nextOp, spent, errWriter >>

\* TodoItem.handleTitleChange, the text not empty and not the title: changeTodo(id, text).
TitleChangeUpdate(i) ==
  /\ i \in Mounted(todosFromServer, filterStatus)
  /\ isEditing[i]
  /\ itemValue[i] # <<>>
  /\ itemValue[i] # ItemTodo(todosFromServer, i).title
  /\ StartChange(i, "title", Trim(itemValue[i]), FALSE, [isLoading EXCEPT ![i] = TRUE])
  /\ last' = Event("TitleChangeUpdate", nextOp, i)

\* currentTodos.map(...) of handleChangeTodo: merge updateData into the entries with the id.
Merge(ts, i, field, t, c) ==
  [k \in 1..Len(ts) |->
     IF ts[k].id = i
     THEN (IF field = "title" THEN [ts[k] EXCEPT !.title = t]
                              ELSE [ts[k] EXCEPT !.completed = c])
     ELSE ts[k]]

\* handleChangeTodo after patchTodo resolved, then the caller's setIsEditing(false)
\* (title edit) and finally.
ChangeOk(o) ==
  /\ o.kind = "patch"
  /\ StoreHas(o.id)
  /\ store' = StorePatch(o.id, o.field, o.title, o.completed)
  /\ todosFromServer' = Merge(todosFromServer, o.id, o.field, o.title, o.completed)
  /\ Render(Merge(todosFromServer, o.id, o.field, o.title, o.completed), filterStatus,
            IF o.live THEN [isLoading EXCEPT ![o.id] = FALSE] ELSE isLoading,
            IF o.live /\ o.field = "title" THEN [isEditing EXCEPT ![o.id] = FALSE]
                                           ELSE isEditing,
            itemValue, ops \ {o})
  /\ last' = [Event("ChangeOk", o.n, o.id) EXCEPT !.field = o.field]
  /\ UNCHANGED << loaded, filterStatus, inputValue, tempTodo, lockInput, deleteAll, changeAll,
                  errorMessage, nextId, nextOp, spent, errWriter >>

\* ChangeFail with the failure not rethrown, so that the caller goes on to
\* setIsEditing(false) as after a success: a faulty variant.
ChangeFailSwallowed(o) ==
  /\ o.kind = "patch"
  /\ errorMessage' = MsgUpdate
  /\ errWriter' = o.n
  /\ Keep(IF o.live THEN [isLoading EXCEPT ![o.id] = FALSE] ELSE isLoading,
          IF o.live /\ o.field = "title" THEN [isEditing EXCEPT ![o.id] = FALSE]
                                         ELSE isEditing,
          itemValue, ops \ {o})
  /\ last' = [Event("ChangeFail", o.n, o.id) EXCEPT !.field = o.field]
  /\ UNCHANGED << loaded, todosFromServer, filterStatus, inputValue, tempTodo, lockInput, deleteAll,
                  changeAll, store, nextId, nextOp, spent >>

\* handleChangeTodo after patchTodo rejected with an Error: set the message, rethrow;
\* the caller's finally runs, its setIsEditing(false) does not.
ChangeFail(o) ==
  /\ o.kind = "patch"
  /\ errorMessage' = MsgUpdate
  /\ errWriter' = o.n
  /\ Keep(IF o.live THEN [isLoading EXCEPT ![o.id] = FALSE] ELSE isLoading,
          isEditing, itemValue, ops \ {o})
  /\ last' = [Event("ChangeFail", o.n, o.id) EXCEPT !.field = o.field]
  /\ UNCHANGED << loaded, todosFromServer, filterStatus, inputValue, tempTodo, lockInput, deleteAll,
                  changeAll, store, nextId, nextOp, spent >>

\* ----------------------------------------------------------------- bulk delete
\* The positions of ts handleDeleteAll issues deleteTodo for.
DeleteAllCalls(ts) == { k \in 1..Len(ts) : ts[k].completed }

\* handleDeleteAll up to Promise.allSettled; the button sits in the footer (list not
\* empty) and is disabled without completed todos.
ClearCompleted ==
  /\ Len(todosFromServer) > 0
  /\ Len(completedTodos(todosFromServer)) > 0
  /\ Budget
  /\ deleteAll' = TRUE
  /\ errorMessage' = NoError
  /\ errWriter' = nextOp
  /\ Keep(isLoading, isEditing, itemValue,
          ops \cup { [Op(nextOp, "delAll") EXCEPT !.snap = todosFromServer,
                                                  !.work = todosFromServer,
                                                  !.pending = DeleteAllCalls(todosFromServer)] })
  /\ nextOp' = nextOp + 1
  /\ last' = Event("ClearCompleted", nextOp, 0)
  /\ UNCHANGED << loaded, todosFromServer, filterStatus, inputValue, tempTodo, lockInput, changeAll,
                  store, nextId >>

\* handleDeleteAll writing the list and clearing the marker as soon as one call has
\* failed, the other calls still in flight: a faulty variant.
DeleteAllSettleAbort(o, p, ev) ==
  IF p.pending = {} \/ p.failed # {}
  THEN /\ todosFromServer' = p.work
       /\ deleteAll' = FALSE
       /\ Render(p.work, filterStatus, isLoading, isEditing, itemValue, ops \ {o})
       /\ last' = [Event(ev, o.n, 0) EXCEPT !.ev = "DeleteAllDone", !.okd = p.okd,
                                            !.failed = p.failed]
  ELSE /\ Keep(isLoading, isEditing, itemValue, (ops \ {o}) \cup {p})
       /\ last' = Event(ev, o.n, 0)
       /\ UNCHANGED << loaded, todosFromServer, deleteAll >>

\* What follows a settled call of handleDeleteAll whose invocation is now p: when it was
\* the last one, Promise.allSettled resolves and the handler writes updatedTodos and
\* clears the marker; otherwise the invocation stays suspended.
DeleteAllSettle(o, p, ev) ==
  IF p.pending = {}
  THEN /\ todosFromServer' = p.work
       /\ deleteAll' = FALSE
       /\ Render(p.work, filterStatus, isLoading, isEditing, itemValue, ops \ {o})
       /\ last' = [Event(ev, o.n, 0) EXCEPT !.ev = "DeleteAllDone", !.okd = p.okd,
                                            !.failed = p.failed]
  ELSE /\ Keep(isLoading, isEditing, itemValue, (ops \ {o}) \cup {p})
       /\ last' = Event(ev, o.n, 0)
       /\ UNCHANGED << loaded, todosFromServer, deleteAll >>

\* One deleteTodo of handleDeleteAll resolved: the item leaves updatedTodos.
DeleteAllOk(o, k) ==
  /\ o.kind = "delAll" /\ k \in o.pending
  /\ StoreHas(o.snap[k].id)
  /\ store' = StoreRemove(o.snap[k].id)
  /\ DeleteAllSettle(o, [o EXCEPT !.work = WithoutId(o.work, o.snap[k].id),
                                  !.pending = o.pending \ {k},
                                  !.okd = o.okd \cup {k}], "DeleteAllOk")
  /\ UNCHANGED << loaded, filterStatus, inputValue, tempTodo, lockInput, changeAll, errorMessage,
                  nextId, nextOp, spent, errWriter >>

\* One deleteTodo of handleDeleteAll rejected: the catch sets the message.
DeleteAllFail(o, k) ==
  /\ o.kind = "delAll" /\ k \in o.pending
  /\ errorMessage' = MsgDelete
  /\ errWriter' = o.n
  /\ DeleteAllSettle(o, [o EXCEPT !.pending = o.pending \ {k},
                                  !.failed = o.failed \cup {k}], "DeleteAllFail")
  /\ UNCHANGED << loaded, filterStatus, inputValue, tempTodo, lockInput, changeAll, store, nextId,
                  nextOp, spent >>

\* ----------------------------------------------------------------- bulk toggle
\* ToggleAllCalls with a call for every item, whatever the direction: a faulty variant.
ToggleAllCallsEvery(ts) == 1..Len(ts)

\* The positions of ts handleToggleAll awaits a patchTodo for: every one when all are
\* completed, else the not-completed ones.
ToggleAllCalls(ts) ==
  { k \in 1..Len(ts) : allCompleted(ts) \/ ~ts[k].completed }

\* The updatedTodos.map(...) that follows a resolved patchTodo of handleToggleAll, in
\* the closure of an item with flag c, under the captured allCompleted.
ToggleAllMap(ts, all, c) ==
  [j \in 1..Len(ts) |->
     IF all THEN [ts[j] EXCEPT !.completed = FALSE]
     ELSE IF ~all /\ ~c THEN [ts[j] EXCEPT !.completed = TRUE]
     ELSE ts[j]]

\* handleToggleAll taking the direction "complete" whatever the list: a faulty variant.
ToggleAllSameDirection ==
  /\ Len(todosFromServer) > 0
  /\ Budget
  /\ changeAll' = "active"
  /\ Keep(isLoading, isEditing, itemValue,
          ops \cup { [Op(nextOp, "togAll") EXCEPT !.snap = todosFromServer,
                                                  !.work = todosFromServer,
                                                  !.all = FALSE,
                                                  !.prev = IF last.ev = "ToggleAllDone"
                                                                /\ last.failed = {}
                                                             THEN last.snap ELSE <<>>,
                                                  !.pending = ToggleAllCalls(todosFromServer)] })
  /\ nextOp' = nextOp + 1
  /\ last' = Event("ToggleAll", nextOp, 0)
  /\ UNCHANGED << loaded, todosFromServer, filterStatus, inputValue, tempTodo, lockInput,
                  deleteAll, errorMessage, store, nextId, errWriter >>

\* handleToggleAll up to Promise.allSettled; the button is rendered when the list is
\* not empty.
ToggleAll ==
  /\ Len(todosFromServer) > 0
  /\ Budget
  /\ changeAll' = IF allCompleted(todosFromServer) THEN "completed" ELSE "active"
  /\ Keep(isLoading, isEditing, itemValue,
          ops \cup { [Op(nextOp, "togAll") EXCEPT !.snap = todosFromServer,
                                                  !.work = todosFromServer,
                                                  !.all = allCompleted(todosFromServer),
                                                  !.prev = IF last.ev = "ToggleAllDone"
                                                                /\ last.failed = {}
                                                             THEN last.snap ELSE <<>>,
                                                  !.pending = ToggleAllCalls(todosFromServer)] })
  /\ nextOp' = nextOp + 1
  /\ last' = Event("ToggleAll", nextOp, 0)
  /\ UNCHANGED << loaded, todosFromServer, filterStatus, inputValue, tempTodo, lockInput, deleteAll,
                  errorMessage, store, nextId, errWriter >>

\* What follows a settled call of handleToggleAll whose invocation is now p.
ToggleAllSettle(o, p, ev) ==
  IF p.pending = {}
  THEN /\ todosFromServer' = p.work
       /\ changeAll' = "null"
       /\ Render(p.work, filterStatus, isLoading, isEditing, itemValue, ops \ {o})
       /\ last' = [Event(ev, o.n, 0) EXCEPT !.ev = "ToggleAllDone", !.okd = p.okd,
                                            !.failed = p.failed, !.snap = p.snap,
                                            !.prev = p.prev]
  ELSE /\ Keep(isLoading, isEditing, itemValue, (ops \ {o}) \cup {p})
       /\ last' = Event(ev, o.n, 0)
       /\ UNCHANGED << loaded, todosFromServer, changeAll >>

\* One patchTodo of handleToggleAll resolved.
ToggleAllOk(o, k) ==
  /\ o.kind = "togAll" /\ k \in o.pending
  /\ StoreHas(o.snap[k].id)
  /\ store' = StorePatch(o.snap[k].id, "completed", <<>>, ~o.all)
  /\ ToggleAllSettle(o, [o EXCEPT !.work = ToggleAllMap(o.work, o.all, o.snap[k].completed),
                                  !.pending = o.pending \ {k},
                                  !.okd = o.okd \cup {k}], "ToggleAllOk")
  /\ UNCHANGED << loaded, filterStatus, inputValue, tempTodo, lockInput, deleteAll, errorMessage,
                  nextId, nextOp, spent, errWriter >>

\* One patchTodo of handleToggleAll rejected: the catch sets the message.
ToggleAllFail(o, k) ==
  /\ o.kind = "togAll" /\ k \in o.pending
  /\ errorMessage' = MsgDelete
  /\ errWriter' = o.n
  /\ ToggleAllSettle(o, [o EXCEPT !.pending = o.pending \ {k},
                                  !.failed = o.failed \cup {k}], "ToggleAllFail")
  /\ UNCHANGED << loaded, filterStatus, inputValue, tempTodo, lockInput, deleteAll, store, nextId,
                  nextOp, spent >>

\* ------------------------------------------------------------- specification
Next ==
  \/ \E o \in ops : LoadServe(o)
  \/ \E o \in ops : LoadDone(o)
  \/ \E o \in ops : LoadFail(o)
  \/ \E v \in Texts : TypeNew(v)
  \/ PostEmpty
  \/ PostTodo
  \/ \E o \in ops : PostServe(o)
  \/ \E o \in ops : PostDone(o)
  \/ \E o \in ops : PostFail(o)
  \/ \E f \in {"All", "Active", "Completed"} : SetFilter(f)
  \/ \E i \in Ids : StartEdit(i)
  \/ \E i \in Ids, v \in Texts : TypeItem(i, v)
  \/ \E i \in Ids : Escape(i)
  \/ \E i \in Ids : DeleteItem(i)
  \/ \E o \in ops : DeleteOk(o)
  \/ \E o \in ops : DeleteFail(o)
  \/ \E i \in Ids : ToggleItem(i)
  \/ \E i \in Ids : TitleChangeDelete(i)
  \/ \E i \in Ids : TitleChangeSame(i)
  \/ \E i \in Ids : TitleChangeUpdate(i)
  \/ \E o \in ops : ChangeOk(o)
  \/ \E o \in ops : ChangeFail(o)
  \/ ClearCompleted
  \/ \E o \in ops : \E k \in o.pending : DeleteAllOk(o, k)
  \/ \E o \in ops : \E k \in o.pending : DeleteAllFail(o, k)
  \/ ToggleAll
  \/ \E o \in ops : \E k \in o.pending : ToggleAllOk(o, k)
  \/ \E o \in ops : \E k \in o.pending : ToggleAllFail(o, k)

Spec == Init /\ [][Next]_vars

\* A remote call settles: the store answers it, or its reply or its rejection is delivered.
Settle ==
  \/ \E o \in ops : LoadServe(o) \/ LoadDone(o) \/ LoadFail(o)
  \/ \E o \in ops : PostServe(o) \/ PostDone(o) \/ PostFail(o)
  \/ \E o \in ops : DeleteOk(o) \/ DeleteFail(o)
  \/ \E o \in ops : ChangeOk(o) \/ ChangeFail(o)
  \/ \E o \in ops : \E k \in o.pending : DeleteAllOk(o, k) \/ DeleteAllFail(o, k)
  \/ \E o \in ops : \E k \in o.pending : ToggleAllOk(o, k) \/ ToggleAllFail(o, k)

\* Every remote call eventually settles; the user is under no obligation to act.
FairSpec == Spec /\ WF_vars(Settle)

\* ------------------------------------------- the bulk handlers, nothing to act on
\* The rendered buttons never call a bulk handler on a list it has nothing to do for
\* (ToggleAllButton needs a non-empty list, ClearCompletedButton a completed todo).
\* The handlers themselves are defined for such a list: Promise.allSettled of no pending
\* call resolves at once and the handler runs to its end before any other event.

\* handleDeleteAll never reaching setDeleteAll(false) when it has no call to wait for: a
\* faulty variant.
DeleteAllEmptyStuck ==
  /\ DeleteAllCalls(todosFromServer) = {}
  /\ Gesture
  /\ errorMessage' = NoError
  /\ errWriter' = nextOp
  /\ todosFromServer' = todosFromServer
  /\ deleteAll' = TRUE
  /\ Keep(isLoading, isEditing, itemValue, ops)
  /\ nextOp' = nextOp + 1
  /\ last' = Event("DeleteAllEmpty", nextOp, 0)
  /\ UNCHANGED << loaded, filterStatus, inputValue, tempTodo, lockInput, changeAll, store,
                  nextId >>

\* handleDeleteAll called on a list without completed todos.
DeleteAllEmpty ==
  /\ DeleteAllCalls(todosFromServer) = {}
  /\ Gesture
  /\ errorMessage' = NoError
  /\ errWriter' = nextOp
  /\ todosFromServer' = todosFromServer
  /\ deleteAll' = FALSE
  /\ Keep(isLoading, isEditing, itemValue, ops)
  /\ nextOp' = nextOp + 1
  /\ last' = Event("DeleteAllEmpty", nextOp, 0)
  /\ UNCHANGED << loaded, filterStatus, inputValue, tempTodo, lockInput, changeAll, store,
                  nextId >>

\* handleToggleAll called on the empty list.
ToggleAllEmpty ==
  /\ ToggleAllCalls(todosFromServer) = {}
  /\ Gesture
  /\ todosFromServer' = todosFromServer
  /\ changeAll' = "null"
  /\ Keep(isLoading, isEditing, itemValue, ops)
  /\ nextOp' = nextOp + 1
  /\ last' = Event("ToggleAllEmpty", nextOp, 0)
  /\ UNCHANGED << loaded, filterStatus, inputValue, tempTodo, lockInput, deleteAll,
                  errorMessage, store, nextId, errWriter >>

\* The application with the bulk handlers callable on any list.
NextDirect == Next \/ DeleteAllEmpty \/ ToggleAllEmpty

SpecDirect == Init /\ [][NextDirect]_vars

\* ------------------------------------------------------------------- claims
\* The ids of the positions ks of the list ts.
IdsAt(ts, ks) == { ts[k].id : k \in ks }

\* The list ts without the entries whose id is in is, order kept.
WithoutIds(ts, is) == LET keep(t) == t.id \notin is IN SelectSeq(ts, keep)

\* C1: when a bulk delete ends, the collection state is the list it was invoked on minus
\* the completed items whose remove() call succeeded, in the original order; a remove()
\* call was made for exactly the completed items; and, the bulk delete being the last
\* writer of the Error Slot, the slot is set iff some call failed.
C1_BulkDeleteResult ==
  [][\A o \in ops :
       (last'.ev = "DeleteAllDone" /\ last'.n = o.n) =>
         /\ last'.okd \cup last'.failed = DeleteAllCalls(o.snap)
         /\ last'.okd \cap last'.failed = {}
         /\ todosFromServer' = WithoutIds(o.snap, IdsAt(o.snap, last'.okd))
         /\ (errWriter' = o.n => (errorMessage' # NoError <=> last'.failed # {}))
         /\ (errWriter' = o.n /\ last'.failed # {} => errorMessage' = MsgDelete)]_vars

\* A bulk delete has ended with one call failed and another succeeded, the failed item
\* still listed and the message shown.
C1_Witness ==
  /\ last.ev = "DeleteAllDone"
  /\ last.okd # {} /\ last.failed # {}
  /\ Len(todosFromServer) = 1
  /\ errWriter = last.n
  /\ errorMessage = MsgDelete

\* C2: when a bulk toggle ends, every item it made an update call for has the new
\* completed value if its call succeeded and its old one if its call failed.
C2_BulkTogglePerItem ==
  [][\A o \in ops :
       (last'.ev = "ToggleAllDone" /\ last'.n = o.n) =>
         /\ Len(todosFromServer') = Len(o.snap)
         /\ \A k \in ToggleAllCalls(o.snap) :
              todosFromServer'[k].completed =
                IF k \in last'.okd THEN ~o.all ELSE o.snap[k].completed]_vars

\* C3: a delete-one whose remove(id) succeeded leaves the collection state without id
\* and otherwise as it was; one whose remove(id) failed leaves it as it was and sets the
\* delete-failure message.
C3_DeleteOneFrame ==
  [][\A o \in ops :
       /\ (last'.ev = "DeleteOk" /\ last'.n = o.n) =>
            todosFromServer' = WithoutIds(todosFromServer, {o.id})
       /\ (last'.ev = "DeleteFail" /\ last'.n = o.n) =>
            todosFromServer' = todosFromServer /\ errorMessage' = MsgDelete]_vars

\* The entry of the list ts with id i.
EntryOf(ts, i) == ts[CHOOSE k \in 1..Len(ts) : ts[k].id = i]

\* C4: outside the startup load, an entry leaves the collection state only when the
\* store has removed it, enters it only when the store holds it, and changes its title
\* or completed flag only to what the store holds for it.
C4_OnlySuccessfulCalls ==
  [][last'.ev # "LoadDone" =>
       /\ \A i \in IdsOf(todosFromServer) \ IdsOf(todosFromServer') : i \notin IdsOf(store')
       /\ \A i \in IdsOf(todosFromServer') \ IdsOf(todosFromServer) : i \in IdsOf(store')
       /\ \A i \in IdsOf(todosFromServer) \cap IdsOf(todosFromServer') :
            EntryOf(todosFromServer', i) # EntryOf(todosFromServer, i) =>
              /\ i \in IdsOf(store')
              /\ EntryOf(todosFromServer', i).completed # EntryOf(todosFromServer, i).completed
                   => EntryOf(todosFromServer', i).completed = EntryOf(store', i).completed
              /\ EntryOf(todosFromServer', i).title # EntryOf(todosFromServer, i).title
                   => EntryOf(todosFromServer', i).title = EntryOf(store', i).title]_vars

\* Every item of ts is completed.
EveryCompleted(ts) == \A k \in 1..Len(ts) : ts[k].completed

\* ts with every completed flag set to c.
AllSetTo(ts, c) == [k \in 1..Len(ts) |-> [ts[k] EXCEPT !.completed = c]]

\* C5: a bulk toggle takes its direction from the list it is invoked on: update calls go
\* to every item when all are completed and only to the not-completed items otherwise,
\* each call sends the direction's value, and when all calls have succeeded the list is
\* the invoked-on list with every item not completed (all were completed) or every item
\* completed (otherwise); already-completed items of a list not all completed get no
\* call and are the same in the result, whatever the calls' outcomes.
C5_BulkToggleDirection ==
  [][/\ last'.ev = "ToggleAll" =>
          \A p \in ops' :
            p.n = last'.n =>
              /\ p.all = EveryCompleted(todosFromServer)
              /\ p.pending = IF EveryCompleted(todosFromServer)
                             THEN 1..Len(todosFromServer)
                             ELSE { k \in 1..Len(todosFromServer) :
                                      ~todosFromServer[k].completed }
     /\ \A o \in ops :
          (o.kind = "togAll" /\ last'.n = o.n) =>
            /\ Len(store') = Len(store)
            /\ \A j \in 1..Len(store) :
                 store'[j] # store[j] =>
                   /\ store[j].id \in IdsAt(o.snap, o.pending)
                   /\ store'[j] = [store[j] EXCEPT !.completed = ~EveryCompleted(o.snap)]
            /\ last'.ev = "ToggleAllDone" =>
                 /\ last'.failed = {} =>
                      todosFromServer' = AllSetTo(o.snap, ~EveryCompleted(o.snap))
                 /\ ~EveryCompleted(o.snap) =>
                      \A k \in 1..Len(o.snap) :
                        o.snap[k].completed =>
                          /\ k \notin last'.okd \cup last'.failed
                          /\ todosFromServer'[k] = o.snap[k]]_vars

\* A bulk toggle of a list with a completed and a not-completed item has ended, its one
\* call succeeded, every item completed.
C5_Witness ==
  /\ last.ev = "ToggleAllDone"
  /\ last.failed = {}
  /\ Cardinality(last.okd) = 1
  /\ Len(todosFromServer) = 2
  /\ EveryCompleted(todosFromServer)

\* C6: a failed update-one leaves the collection state as it was and sets the
\* update-failure message; after a failed title edit the item, still rendered, has its
\* loading flag cleared and is in edit mode if it was.
C6_UpdateFailure ==
  [][\A o \in ops :
       (last'.ev = "ChangeFail" /\ last'.n = o.n) =>
         /\ todosFromServer' = todosFromServer
         /\ errorMessage' = MsgUpdate
         /\ (o.field = "title" /\ o.id \in Mounted(todosFromServer', filterStatus')) =>
              /\ isEditing'[o.id] = isEditing[o.id]
              /\ (o.live => ~isLoading'[o.id])]_vars

\* A title edit's update has failed: the item is in edit mode, not loading, the message
\* shown.
C6_Witness ==
  /\ last.ev = "ChangeFail" /\ last.field = "title"
  /\ isEditing[last.id] /\ ~isLoading[last.id]
  /\ errorMessage = MsgUpdate

\* The text s is empty after trimming: it holds nothing but spaces.
Blank(s) == \A k \in 1..Len(s) : s[k] = " "

\* C7: no update call with an empty title is in flight, no todo of the collection state
\* has an empty title, and a submitted title edit whose text is blank starts a remove
\* call.
C7_BlankEditDeletes ==
  [][/\ \A o \in ops' : ~(o.kind = "patch" /\ o.field = "title" /\ o.title = <<>>)
     /\ \A k \in 1..Len(todosFromServer') : todosFromServer'[k].title # <<>>
     /\ \A i \in Ids :
          (last'.ev \in {"TitleChangeDelete", "TitleChangeSame", "TitleChangeUpdate"}
             /\ last'.id = i /\ Blank(itemValue[i])) =>
            \E o \in ops' \ ops : o.kind = "del" /\ o.id = i]_vars

\* C8: a create that succeeded appends the returned todo (fresh id, the title sent, not
\* completed) to the collection state as it is when the reply arrives and clears the
\* input text; a create that failed leaves the collection state and the input text as
\* they are and sets the add-failure message.
C8_CreateFrame ==
  [][\A o \in ops :
       /\ (last'.ev = "PostDone" /\ last'.n = o.n) =>
            /\ Len(todosFromServer') = Len(todosFromServer) + 1
            /\ SubSeq(todosFromServer', 1, Len(todosFromServer)) = todosFromServer
            /\ todosFromServer'[Len(todosFromServer')] = Todo(last'.id, o.title, FALSE)
            /\ o.title # <<>> /\ ~Blank(o.title)
            /\ inputValue' = <<>>
       /\ (last'.ev = "PostFail" /\ last'.n = o.n) =>
            /\ todosFromServer' = todosFromServer
            /\ inputValue' = inputValue
            /\ errorMessage' = MsgAdd]_vars

\* A create has succeeded on a list of two: the new todo is third, titled with the
\* trimmed text, and the input text is empty.
C8_Witness ==
  /\ last.ev = "PostDone"
  /\ Len(todosFromServer) = 3
  /\ todosFromServer[3] = Todo(last.id, <<"b">>, FALSE)
  /\ inputValue = <<>>

\* C9: submitting a new-todo text that is blank sets the title-required message, starts
\* no remote call, and leaves the placeholder, the input lock, the collection state and
\* the store as they are.
C9_BlankTitleRejected ==
  [][(last'.ev \in {"PostEmpty", "PostTodo"} /\ Blank(inputValue)) =>
       /\ errorMessage' = MsgTitle
       /\ ops' = ops
       /\ tempTodo' = tempTodo
       /\ lockInput' = lockInput
       /\ todosFromServer' = todosFromServer
       /\ store' = store]_vars

\* A text of one space has been submitted: the title-required message is shown, nothing
\* is in flight, no placeholder, no lock.
C9_Witness ==
  /\ last.ev = "PostEmpty"
  /\ inputValue = <<" ">>
  /\ errorMessage = MsgTitle
  /\ ops = {} /\ tempTodo = <<>> /\ ~lockInput

\* C10: every operation with a remote call has cleared the Error Slot when its first
\* call is issued.
C10_ClearedAtStart ==
  [][last'.ev \in {"PostTodo", "DeleteItem", "TitleChangeDelete", "ToggleItem",
                   "TitleChangeUpdate", "ClearCompleted", "ToggleAll"}
       => errorMessage' = NoError]_vars

\* C11: every failure sets the message of its own category: a failed load the load
\* message, a failed create the add message, a failed remove (delete-one or bulk
\* delete) the delete message, a failed update (update-one or bulk toggle) the update
\* message.
C11_MessagePerCategory ==
  [][\A o \in ops :
       last'.n = o.n =>
         /\ last'.ev = "LoadFail" => errorMessage' = MsgLoad
         /\ last'.ev = "PostFail" => errorMessage' = MsgAdd
         /\ last'.ev = "DeleteFail" => errorMessage' = MsgDelete
         /\ last'.ev = "ChangeFail" => errorMessage' = MsgUpdate
         /\ (o.kind = "delAll"
               /\ (last'.ev = "DeleteAllFail"
                     \/ (last'.ev = "DeleteAllDone" /\ last'.failed # o.failed)))
              => errorMessage' = MsgDelete
         /\ (o.kind = "togAll"
               /\ (last'.ev = "ToggleAllFail"
                     \/ (last'.ev = "ToggleAllDone" /\ last'.failed # o.failed)))
              => errorMessage' = MsgUpdate]_vars

\* C12: the ids of the collection state are pairwise distinct.
C12_DistinctIds ==
  \A j, k \in 1..Len(todosFromServer) :
    j # k => todosFromServer[j].id # todosFromServer[k].id

\* A create request is in flight.
CreatesInFlight == { o \in ops : o.kind = "post" }

\* C19: a create request is in flight exactly when the placeholder is set, the
\* placeholder then holds that request's trimmed title, the input lock is held while a
\* create request is in flight, and at most one create request is in flight.
C19_PlaceholderAndLock ==
  /\ (CreatesInFlight # {}) <=> (tempTodo # <<>>)
  /\ \A o \in CreatesInFlight : tempTodo = <<o.title>> /\ lockInput
  /\ Cardinality(CreatesInFlight) <= 1

\* The reply a served call carries back (the invocation numbered n, after the step).
ReplyOf(n) == (CHOOSE o \in ops' : o.n = n).work

\* C15: the store answers getTodos with its collection; when the load succeeds the list
\* becomes exactly the returned sequence, in returned order; when it fails the Error
\* Slot is set to the load-failure message and the list keeps its value.
C15_Load ==
  [][\A o \in ops :
       last'.n = o.n =>
         /\ last'.ev = "LoadServe" => ReplyOf(o.n) = store
         /\ last'.ev = "LoadDone" => todosFromServer' = o.work
         /\ last'.ev = "LoadFail" =>
              /\ errorMessage' = MsgLoad
              /\ todosFromServer' = todosFromServer]_vars

\* A load has just written a reply of two todos.
C15_Witness ==
  /\ last.ev = "LoadDone"
  /\ Len(todosFromServer) = 2

\* The todo t matches the filter f.
MatchesFilter(t, f) ==
  \/ f = "All"
  \/ f = "Active" /\ ~t.completed
  \/ f = "Completed" /\ t.completed

\* The positions of ts whose todo matches f, and the j-th smallest of a set of positions.
MatchingPositions(ts, f) == { k \in 1..Len(ts) : MatchesFilter(ts[k], f) }

NthPosition(pos, j) == CHOOSE k \in pos : Cardinality({ m \in pos : m < k }) = j - 1

\* v is the subsequence of ts, in the order of ts, of the todos matching f.
IsFilteredView(v, ts, f) ==
  LET pos == MatchingPositions(ts, f)
  IN /\ Len(v) = Cardinality(pos)
     /\ \A j \in 1..Len(v) : v[j] = ts[NthPosition(pos, j)]

\* C16: for every filter the filtered view of the list is the subsequence, in original
\* order, of the todos whose completed flag matches the filter, and the whole list for
\* All; allCompleted holds exactly when the number of completed todos equals the length
\* of the list, so it holds for the empty list; choosing a filter, which recomputes the
\* view, leaves the list unchanged.
C16_FilteredView ==
  /\ [](/\ \A f \in {"All", "Active", "Completed"} :
             IsFilteredView(preparedTodos(todosFromServer, f), todosFromServer, f)
        /\ preparedTodos(todosFromServer, "All") = todosFromServer
        /\ allCompleted(todosFromServer)
             <=> Cardinality(MatchingPositions(todosFromServer, "Completed"))
                   = Len(todosFromServer)
        /\ todosFromServer = <<>> => allCompleted(todosFromServer))
  /\ [][last'.ev = "SetFilter" => todosFromServer' = todosFromServer]_vars

\* The Active filter has just been chosen on a list of three todos of which it shows
\* some but not all, the first of the list being left out.
C16_Witness ==
  /\ last.ev = "SetFilter"
  /\ filterStatus = "Active"
  /\ Len(todosFromServer) = 3
  /\ Len(preparedTodos(todosFromServer, filterStatus)) = 2
  /\ todosFromServer[1].completed

\* The positions of ts a bulk operation of kind "delAll" or "togAll" has to act on: the
\* completed todos for a bulk delete, the todos whose flag differs from the target (not
\* completed when every todo is completed, else completed) for a bulk toggle.
BulkTargets(kind, ts) ==
  IF kind = "delAll"
  THEN { k \in 1..Len(ts) : ts[k].completed }
  ELSE { k \in 1..Len(ts) : ts[k].completed # ~EveryCompleted(ts) }

\* The progress marker of a bulk operation of that kind is cleared.
MarkerCleared(kind, d, c) == IF kind = "delAll" THEN ~d ELSE c = "null"

\* C17: a bulk operation has a call in flight for every position it has to act on, from
\* the step that invokes it; a call that settles, resolved or rejected, takes nothing
\* but itself out of the calls in flight; while a call of the operation remains in
\* flight its steps leave the list and its marker alone; the operation ends, writing
\* the list and clearing its marker, at the step where its last call settles, every
\* call having settled, and it takes no step afterwards.
C17_BulkNeverAborts ==
  [][/\ \A p \in ops' :
          (last'.ev \in {"ClearCompleted", "ToggleAll"} /\ last'.n = p.n) =>
            /\ p.snap = todosFromServer
            /\ p.pending = BulkTargets(p.kind, p.snap)
            /\ p.okd = {} /\ p.failed = {}
            /\ todosFromServer' = todosFromServer
            /\ ~MarkerCleared(p.kind, deleteAll', changeAll')
     /\ \A o \in ops :
          (o.kind \in {"delAll", "togAll"} /\ last'.n = o.n) =>
            /\ o.pending \cup o.okd \cup o.failed = BulkTargets(o.kind, o.snap)
            /\ last'.ev \in {"DeleteAllOk", "DeleteAllFail", "ToggleAllOk", "ToggleAllFail"} =>
                 /\ Cardinality(o.pending) > 1
                 /\ \E p \in ops' :
                      /\ p.n = o.n
                      /\ p.pending \subseteq o.pending
                      /\ Cardinality(p.pending) = Cardinality(o.pending) - 1
                      /\ p.okd \cup p.failed = (o.okd \cup o.failed) \cup (o.pending \ p.pending)
                 /\ todosFromServer' = todosFromServer
                 /\ deleteAll' = deleteAll /\ changeAll' = changeAll
            /\ last'.ev \in {"DeleteAllDone", "ToggleAllDone"} =>
                 /\ Cardinality(o.pending) = 1
                 /\ last'.okd \cup last'.failed = BulkTargets(o.kind, o.snap)
                 /\ MarkerCleared(o.kind, deleteAll', changeAll')
                 /\ \A p \in ops' : p.n # o.n]_vars

\* A call of a bulk delete has just failed while another call of the same bulk delete
\* is still in flight: the operation goes on, its marker set.
C17_Witness ==
  /\ last.ev = "DeleteAllFail"
  /\ deleteAll
  /\ \E o \in ops : o.n = last.n /\ o.kind = "delAll" /\ o.failed # {} /\ o.pending # {}

\* The lists ts and us hold the same ids and, for each id, the same title and flag.
Agree(ts, us) ==
  /\ IdsOf(ts) = IdsOf(us)
  /\ \A j \in 1..Len(ts), k \in 1..Len(us) : ts[j].id = us[k].id => ts[j] = us[k]

\* C20: after a successful startup load, whenever no remote call is in flight, the
\* collection state agrees with the remote store: the same ids and, for each id, the
\* same title and completed flag.
C20_AgreesWithStore ==
  (loaded = "ok" /\ ops = {}) => Agree(todosFromServer, store)

\* ts with every completed flag set to the opposite of its own value.
FlipEach(ts) == [k \in 1..Len(ts) |-> [ts[k] EXCEPT !.completed = ~ts[k].completed]]

\* A bulk toggle o ends at this step with every call resolved, having been invoked right
\* after an earlier bulk toggle ended with every call resolved.
SecondToggleEnds(o) ==
  /\ last'.ev = "ToggleAllDone" /\ last'.n = o.n
  /\ last'.failed = {}
  /\ o.prev # <<>>

\* C14 (as stated): two bulk toggles in direct succession, all calls succeeding, leave
\* the list the first was invoked on with every item set to the opposite of its own
\* value.
C14_ToggleTwiceFlipsEach ==
  [][\A o \in ops : SecondToggleEnds(o) => todosFromServer' = FlipEach(o.prev)]_vars

\* C14 (amended): two bulk toggles in direct succession, all calls succeeding, leave the
\* list the first was invoked on with every item completed when every item was
\* completed, and every item not completed otherwise; the second toggle sets every item
\* to the opposite of the value the first gave it and does not repeat the first's
\* direction.
C14_ToggleTwice ==
  [][\A o \in ops :
       SecondToggleEnds(o) =>
         /\ todosFromServer' = AllSetTo(o.prev, EveryCompleted(o.prev))
         /\ o.snap = AllSetTo(o.prev, ~EveryCompleted(o.prev))
         /\ todosFromServer' = FlipEach(o.snap)
         /\ todosFromServer' # o.snap]_vars

\* The second of two successful bulk toggles has just ended; the first was invoked on a
\* list with a completed and a not-completed todo, and every todo is now not completed.
C14_Witness ==
  /\ last.ev = "ToggleAllDone"
  /\ last.failed = {}
  /\ last.prev # <<>>
  /\ \E j, k \in 1..Len(last.prev) : last.prev[j].completed /\ ~last.prev[k].completed
  /\ todosFromServer = AllSetTo(last.prev, FALSE)

\* Every transient flag is reset: both bulk markers, the input lock, the placeholder and
\* every item's loading flag.
FlagsReset ==
  /\ ~deleteAll
  /\ changeAll = "null"
  /\ ~lockInput
  /\ tempTodo = <<>>
  /\ \A i \in Ids : ~isLoading[i]

\* C18: whenever no remote call is in flight every transient flag is reset, and, every
\* remote call eventually settling, a state with calls in flight is followed by a state
\* with no call in flight and every transient flag reset.
C18_FlagsEventuallyReset ==
  /\ [](ops = {} => FlagsReset)
  /\ (ops # {}) ~> (ops = {} /\ FlagsReset)

\* A create has just been rejected, nothing is in flight, and the field is unlocked and
\* the placeholder gone.
C18_Witness ==
  /\ last.ev = "PostFail"
  /\ ops = {}
  /\ FlagsReset
  /\ errorMessage = MsgAdd

====
